---- MODULE Spec2Model ----
(***************************************************************************)
(* excavate.py: collect untracked build artifacts of a git working         *)
(* directory into <project>_<ref name>_<short hash>_<build id>.tar.gz and  *)
(* prune the archive cache.  Strings are sequences of one-character        *)
(* strings, so that formatting, globbing and the regular expression are    *)
(* computed character by character as Python 2 computes them.              *)
(***************************************************************************)
EXTENDS Integers, Sequences, FiniteSets, TLC

\* ------------------------------------------------------------------ bounds
MaxFiles == 3
MaxCacheSize == 2

\* ------------------------------------------------------------- characters
Rep(c, n) == [i \in 1..n |-> c]

Unknown == <<"<", "u", "n", "k", "n", "o", "w", "n", ">">>
Suffix == <<".", "t", "a", "r", ".", "g", "z">>
Star == <<"*">>
Sep == "/"

Digits == {"0", "1", "2", "3", "4", "5", "6", "7", "8", "9"}

DigitVal(c) ==
    CASE c = "0" -> 0 [] c = "1" -> 1 [] c = "2" -> 2 [] c = "3" -> 3
      [] c = "4" -> 4 [] c = "5" -> 5 [] c = "6" -> 6 [] c = "7" -> 7
      [] c = "8" -> 8 [] c = "9" -> 9

\* Byte value of a character (Python 2 compares str bytewise).
Ord(c) ==
    CASE c = "*" -> 42 [] c = "." -> 46 [] c = "/" -> 47
      [] c \in Digits -> 48 + DigitVal(c)
      [] c = "<" -> 60 [] c = ">" -> 62 [] c = "_" -> 95
      [] c = "a" -> 97 [] c = "b" -> 98 [] c = "c" -> 99 [] c = "d" -> 100
      [] c = "e" -> 101 [] c = "g" -> 103 [] c = "k" -> 107 [] c = "m" -> 109
      [] c = "n" -> 110 [] c = "o" -> 111 [] c = "p" -> 112 [] c = "q" -> 113
      [] c = "r" -> 114 [] c = "s" -> 115 [] c = "t" -> 116 [] c = "u" -> 117
      [] c = "v" -> 118 [] c = "w" -> 119 [] c = "x" -> 120 [] c = "z" -> 122

Min(a, b) == IF a < b THEN a ELSE b

Drop(s, k) == SubSeq(s, k + 1, Len(s))

StartsWith(s, p) == Len(p) <= Len(s) /\ SubSeq(s, 1, Len(p)) = p

\* s < t as Python compares two str values.
RECURSIVE StrLess(_, _)
StrLess(s, t) ==
    IF t = <<>> THEN FALSE
    ELSE IF s = <<>> THEN TRUE
    ELSE IF Head(s) = Head(t) THEN StrLess(Tail(s), Tail(t))
    ELSE Ord(Head(s)) < Ord(Head(t))

\* ------------------------------------------------------ Python primitives
\* str.find(sub): the least index (1-based) at which sub occurs in s, 0 if none.
Find(s, sub) ==
    LET hits == {i \in 1..(Len(s) - Len(sub) + 1) : SubSeq(s, i, i + Len(sub) - 1) = sub}
    IN IF hits = {} THEN 0 ELSE CHOOSE i \in hits : \A j \in hits : i <= j

\* str.split(sep) for a non-empty sep: the pieces between the non-overlapping
\* occurrences of sep, scanned left to right.
RECURSIVE PySplit(_, _)
PySplit(s, sep) ==
    LET i == Find(s, sep)
    IN IF i = 0 THEN <<s>>
       ELSE <<SubSeq(s, 1, i - 1)>> \o PySplit(Drop(s, i + Len(sep) - 1), sep)

\* str.lstrip(chars) for a one-character chars.
RECURSIVE LStrip(_, _)
LStrip(s, c) == IF s # <<>> /\ Head(s) = c THEN LStrip(Tail(s), c) ELSE s

\* os.path.join(a, b) on POSIX.
PathJoin(a, b) ==
    IF b # <<>> /\ Head(b) = Sep THEN b
    ELSE IF a = <<>> \/ a[Len(a)] = Sep THEN a \o b
    ELSE a \o <<Sep>> \o b

\* os.path.basename(p) on POSIX: what follows the last separator.
RECURSIVE PathBasename(_)
PathBasename(p) ==
    LET i == Find(p, <<Sep>>)
    IN IF i = 0 THEN p ELSE PathBasename(Drop(p, i))

\* fnmatch of a name against a pattern whose only magic character is "*".
RECURSIVE FnMatch(_, _)
FnMatch(pat, s) ==
    IF pat = <<>> THEN s = <<>>
    ELSE IF Head(pat) = "*"
         THEN \E k \in 0..Len(s) : FnMatch(Tail(pat), Drop(s, k))
         ELSE s # <<>> /\ Head(s) = Head(pat) /\ FnMatch(Tail(pat), Tail(s))

\* glob.glob1: a pattern that does not start with "." hides dot files.
GlobName(pat, name) ==
    /\ FnMatch(pat, name)
    /\ (pat # <<>> /\ Head(pat) = ".") \/ name = <<>> \/ Head(name) # "."

\* int(s, 0) of Python 2 on a string of digits: a literal with a leading
\* zero is octal, and an octal literal holding 8 or 9 raises ValueError.
ValueError == -1

RECURSIVE Numeral(_, _)
Numeral(s, base) ==
    IF s = <<>> THEN 0
    ELSE Numeral(SubSeq(s, 1, Len(s) - 1), base) * base + DigitVal(s[Len(s)])

PyIntBase0(s) ==
    IF Len(s) > 1 /\ Head(s) = "0"
    THEN IF \E i \in 1..Len(s) : s[i] \in {"8", "9"} THEN ValueError
         ELSE Numeral(s, 8)
    ELSE Numeral(s, 10)

\* --------------------------------------------------------- archive names
ShortRefLength == 8

short_ref(ref) == SubSeq(ref, 1, Min(Len(ref), ShortRefLength))

generate_archive_name(proj_name, ref_name, ref, build_id) ==
    proj_name \o <<"_">> \o ref_name \o <<"_">> \o short_ref(ref)
        \o <<"_">> \o build_id \o Suffix

\* os.environ.get(key, '<unknown>'): a variable is <<>> when unset, <<v>> when set.
EnvGet(v) == IF v = <<>> THEN Unknown ELSE v[1]

\* _generate_archive_name(logger): every field from the environment.
default_archive_name(e) ==
    generate_archive_name(PathBasename(EnvGet(e.CI_PROJECT_DIR)),
        EnvGet(e.CI_BUILD_REF_NAME), EnvGet(e.CI_BUILD_REF), EnvGet(e.CI_BUILD_ID))

\* commit_and_build_id_regex.match(archive):
\* ^.*_(?P<commit>[^_]+)_(?P<id>\d+)\.tar\.gz
\* RegexAt(s, i): the groups when the first "_" of the pattern is taken at i;
\* [^_]+ runs to the next "_" and \d+ to the next character that is no digit.
NonUnderscoreEnd(s, from) ==
    LET ends == {j \in from..(Len(s) + 1) : j = Len(s) + 1 \/ s[j] = "_"}
    IN CHOOSE j \in ends : \A k \in ends : j <= k

DigitsEnd(s, from) ==
    LET ends == {j \in from..(Len(s) + 1) : j = Len(s) + 1 \/ s[j] \notin Digits}
    IN CHOOSE j \in ends : \A k \in ends : j <= k

RegexAt(s, i) ==
    LET j == NonUnderscoreEnd(s, i + 1)
        k == DigitsEnd(s, j + 1)
    IN IF /\ s[i] = "_"
          /\ j > i + 1 /\ j <= Len(s)
          /\ k > j + 1
          /\ StartsWith(Drop(s, k - 1), Suffix)
       THEN <<[commit |-> SubSeq(s, i + 1, j - 1), id |-> SubSeq(s, j + 1, k - 1)]>>
       ELSE <<>>

\* The greedy ".*" takes the longest prefix after which the rest matches.
RegexMatch(s) ==
    LET at == {i \in 1..Len(s) : RegexAt(s, i) # <<>>}
    IN IF at = {} THEN <<>>
       ELSE RegexAt(s, CHOOSE i \in at : \A j \in at : j <= i)

get_build_id(archive) ==
    LET match == RegexMatch(archive)
    IN IF match # <<>> THEN PyIntBase0(match[1].id) ELSE 0

get_commit_id(archive) ==
    LET match == RegexMatch(archive)
    IN IF match # <<>> THEN match[1].commit ELSE <<>>

\* Mutant: the commit field compared with the full hash of a tip.
is_latest_commit_full_hash(commit, latest) == \E l \in latest : commit = l

is_latest_commit(commit, latest) == \E l \in latest : commit = short_ref(l)

\* ------------------------------------------------------------ the inputs
\* Ref hashes: HashA and HashA2 share their first eight characters.
HashA == Rep("a", 8) \o <<"1">>
HashA2 == Rep("a", 8) \o <<"2">>
HashB == Rep("b", 8) \o <<"3">>
HashC == Rep("c", 8) \o <<"4">>
HashShort == <<"a", "b">>

\* What `git for-each-ref` may report as the ref tips.
TipSets == {{}, {HashA}, {HashB}, {HashA, HashA2}, {HashA, HashB}}

MkEnv(dir, name, ref, id) ==
    [CI_PROJECT_DIR |-> dir, CI_BUILD_REF_NAME |-> name,
     CI_BUILD_REF |-> ref, CI_BUILD_ID |-> id]

Envs ==
    { MkEnv(<<>>, <<>>, <<>>, <<>>),
      MkEnv(<< <<"/", "w", "/", "p">> >>, << <<"m">> >>, <<HashA>>, << <<"6">> >>),
      MkEnv(<< <<"/", "w", "/", "p">> >>, << <<"m">> >>, <<HashA>>, << <<"5">> >>),
      MkEnv(<< <<"/", "w", "/", "q">> >>, << <<"m">> >>, <<HashA>>, << <<"0", "1", "0">> >>),
      MkEnv(<< <<"/", "w", "/", "p">> >>, << <<"m">> >>, <<HashC>>, << <<"4">> >>),
      MkEnv(<< <<"p">> >>, << <<"m">> >>, <<HashShort>>, << <<"0", "8">> >>) }

\* Names a save directory may hold before the run.
SavedNames ==
    { generate_archive_name(<<"p">>, <<"m">>, HashA, <<"5">>),
      generate_archive_name(<<"p">>, <<"m">>, HashA, <<"9">>),
      generate_archive_name(<<"q">>, <<"m">>, HashA, <<"0", "1", "0">>),
      generate_archive_name(<<"q">>, <<"m">>, HashA, <<"7">>),
      generate_archive_name(<<"p">>, <<"m">>, HashA, <<"0", "8">>),
      generate_archive_name(<<"p">>, <<"m">>, HashA, Unknown),
      generate_archive_name(<<"p", "_", "q">>, <<"m">>, HashB, <<"7">>),
      generate_archive_name(<<"p">>, <<"m">>, HashC, <<"4">>),
      generate_archive_name(<<"p", "_", "q">>, short_ref(HashA), HashB, <<"8">>),
      <<".">> \o generate_archive_name(<<"p">>, <<"m">>, HashC, <<"3">>),
      <<"n", ".", "t">> }

GitDirs == {<<"/", "r">>, <<"/", "w", "/">>}

\* The paths `git clean -ndx` may report ("Would remove <path>"), in order.
CleanOutputs ==
    { << <<"b", "/", "o">> >>,
      << <<"a", "/", "r", "/", "b">>, <<"b", "/", "o", " ">> >> }

\* _parse_args: the save directory defaults to '<git directory>_saved'.
default_save_directory(g) == g \o <<"_", "s", "a", "v", "e", "d">>

\* Every name and path a run can meet, and the regular expression and the
\* glob patterns evaluated on each of them once.
AllNames == SavedNames \cup {default_archive_name(e) : e \in Envs}

AllPaths == {PathJoin(default_save_directory(g), n) : g \in GitDirs, n \in AllNames}

\* The glob patterns of _cleanup: the archives of one commit, and all archives.
commit_pattern(commit) == generate_archive_name(Star, Star, short_ref(commit), Star)

\* Mutant: the sweep globs every file of the save directory.
all_pattern_every_file == Star

all_pattern == generate_archive_name(Star, Star, Star, Star)

AllPatterns == {commit_pattern(c) : c \in UNION TipSets} \cup {all_pattern}

BuildIdOf == [a \in AllPaths |-> get_build_id(a)]

CommitIdOf == [a \in AllPaths |-> get_commit_id(a)]

GlobNameOf == [pat \in AllPatterns |-> [n \in AllNames |-> GlobName(pat, n)]]

BasenameOf == [a \in AllPaths |-> PathBasename(a)]

\* ------------------------------------------------------------- the state
VARIABLES
    pc,              \* position of main: start, excavated, stored, done, error
    error,           \* the exception that ended main, "" while there is none
    git_dir, save_dir, cache_size, dry_run,     \* parsed arguments
    env,             \* the CI_* environment variables
    dir_exists, files,      \* the save directory and the names in it
    clean_paths,     \* the paths `git clean -ndx` reported
    artifacts,       \* what _excavate returned
    written, tar,    \* whether _store opened the archive, and its entry names
    latest_commits,  \* the ref tips _cleanup read
    cap_files,       \* the names in the save directory after the per-commit loop
    log, removed,    \* "Deleting <archive>" lines in order; paths os.remove took
    initial          \* the save directory before the run

vars == <<pc, error, clean_paths, git_dir, save_dir, cache_size, dry_run, env, dir_exists, files,
          artifacts, written, tar, latest_commits, cap_files, log, removed, initial>>

args == <<git_dir, save_dir, cache_size, dry_run, env, initial>>

Init ==
    /\ pc = "start"
    /\ error = ""
    /\ clean_paths = <<>>
    /\ git_dir \in GitDirs
    /\ save_dir = default_save_directory(git_dir)
    /\ cache_size \in 0..MaxCacheSize
    /\ dry_run \in BOOLEAN
    /\ env \in Envs
    /\ files \in {F \in SUBSET SavedNames : Cardinality(F) <= MaxFiles}
    /\ dir_exists \in (IF files = {} THEN BOOLEAN ELSE {TRUE})
    /\ initial = [dir_exists |-> dir_exists, files |-> files]
    /\ artifacts = <<>>
    /\ written = FALSE
    /\ tar = <<>>
    /\ latest_commits = {}
    /\ cap_files = files
    /\ log = <<>>
    /\ removed = {}

\* ------------------------------------------------------------- _excavate
\* str.strip() of the reported path (blanks only).
RECURSIVE RStrip(_, _)
RStrip(s, c) == IF s # <<>> /\ s[Len(s)] = c THEN RStrip(SubSeq(s, 1, Len(s) - 1), c) ELSE s

PyStrip(s) == RStrip(LStrip(s, " "), " ")

excavate(g, paths) == [i \in 1..Len(paths) |-> PathJoin(g, PyStrip(paths[i]))]

\* Mutant: the failure of `git clean -ndx` is swallowed and main goes on.
Excavate_swallows_failure ==
    /\ pc = "start"
    /\ \E ok \in BOOLEAN :
        IF ok
        THEN \E out \in CleanOutputs :
                /\ clean_paths' = out
                /\ artifacts' = excavate(git_dir, out)
                /\ UNCHANGED error
        ELSE /\ error' = "git clean"
             /\ UNCHANGED <<clean_paths, artifacts>>
    /\ pc' = "excavated"
    /\ UNCHANGED <<args, dir_exists, files, written, tar, latest_commits,
                   cap_files, log, removed>>

\* `git clean -ndx` exits non-zero: _check_output raises and main ends.
Excavate ==
    /\ pc = "start"
    /\ \E ok \in BOOLEAN :
        IF ok
        THEN \E out \in CleanOutputs :
                /\ clean_paths' = out
                /\ artifacts' = excavate(git_dir, out)
                /\ pc' = "excavated"
                /\ UNCHANGED error
        ELSE /\ pc' = "error"
             /\ error' = "git clean"
             /\ UNCHANGED <<clean_paths, artifacts>>
    /\ UNCHANGED <<args, dir_exists, files, written, tar, latest_commits,
                   cap_files, log, removed>>

\* ---------------------------------------------------------------- _store
current_archive(dir, e) == PathJoin(dir, default_archive_name(e))

\* arcname = artifact.split(git_dir)[1].lstrip(os.path.sep)
arcname(artifact, g) == LStrip(PySplit(artifact, g)[2], Sep)

store_entries(arts, g) == [i \in 1..Len(arts) |-> arcname(arts[i], g)]

\* Mutant: _store writes the archive in a dry run too.
Store_ignores_dry_run ==
    /\ pc = "excavated"
    /\ dir_exists' = TRUE
    /\ files' = files \cup {default_archive_name(env)}
    /\ cap_files' = files'
    /\ written' = TRUE
    /\ tar' = store_entries(artifacts, git_dir)
    /\ pc' = "stored"
    /\ UNCHANGED <<args, error, clean_paths, artifacts, latest_commits, log, removed>>

Store ==
    /\ pc = "excavated"
    /\ IF dry_run
       THEN UNCHANGED <<dir_exists, files, written, tar, cap_files>>
       ELSE /\ dir_exists' = TRUE
            /\ files' = files \cup {default_archive_name(env)}
            /\ cap_files' = files'
            /\ written' = TRUE
            /\ tar' = store_entries(artifacts, git_dir)
    /\ pc' = "stored"
    /\ UNCHANGED <<args, error, clean_paths, artifacts, latest_commits, log, removed>>

\* -------------------------------------------------------------- _cleanup
\* glob.iglob(os.path.join(save_dir, pattern)): the paths of the matching names.
Glob(dir, exists, names, pattern) ==
    IF exists THEN {PathJoin(dir, n) : n \in {m \in names : GlobNameOf[pattern][m]}}
    ELSE {}

\* sorted(..., key=get_build_id, reverse=True): every order with the keys
\* descending; equal keys keep the order glob produced, which is arbitrary.
RECURSIVE SortedByKey(_, _)
SortedByKey(A, key) ==
    IF A = {} THEN {<<>>}
    ELSE UNION { {<<m>> \o o : o \in SortedByKey(A \ {m}, key)} :
                 m \in {a \in A : \A b \in A : key[a] >= key[b]} }

\* sorted(paths): ascending, as str compares.
RECURSIVE SortedPaths(_)
SortedPaths(A) ==
    IF A = {} THEN <<>>
    ELSE LET m == CHOOSE a \in A : \A b \in A : a = b \/ StrLess(a, b)
         IN <<m>> \o SortedPaths(A \ {m})

Range(s) == {s[i] : i \in 1..Len(s)}

\* Mutant: the per-commit loop does not spare the current archive.
cap_commit_unguarded(st, commit, dir, size, dry, current_arc) ==
    LET found == Glob(dir, st.exists, st.files, commit_pattern(commit))
        key == [a \in found |-> BuildIdOf[a]]
    IN IF \E a \in found : key[a] = ValueError
       THEN {[st EXCEPT !.status = "error"]}
       ELSE { LET beyond == SubSeq(archives, size + 1, Len(archives))
                  doomed == beyond
              IN [st EXCEPT
                    !.log = @ \o doomed,
                    !.removed = IF dry THEN @ ELSE @ \cup Range(doomed),
                    !.files = IF dry THEN @
                              ELSE @ \ {BasenameOf[arc] : arc \in Range(doomed)}]
              : archives \in SortedByKey(found, key) }

\* One round of the per-commit loop (lines 113-126) from st: the possible results.
cap_commit(st, commit, dir, size, dry, current_arc) ==
    LET found == Glob(dir, st.exists, st.files, commit_pattern(commit))
        key == [a \in found |-> BuildIdOf[a]]
    IN IF \E a \in found : key[a] = ValueError
       THEN {[st EXCEPT !.status = "error"]}
       ELSE { LET beyond == SubSeq(archives, size + 1, Len(archives))
                  doomed == SelectSeq(beyond, LAMBDA arc : arc # current_arc)
              IN [st EXCEPT
                    !.log = @ \o doomed,
                    !.removed = IF dry THEN @ ELSE @ \cup Range(doomed),
                    !.files = IF dry THEN @
                              ELSE @ \ {BasenameOf[arc] : arc \in Range(doomed)}]
              : archives \in SortedByKey(found, key) }

\* for commit in latest_commits: a set is walked in an arbitrary order.
RECURSIVE cap_loop(_, _, _, _, _, _)
cap_loop(st, todo, dir, size, dry, current_arc) ==
    IF st.status = "error" \/ todo = {} THEN {st}
    ELSE UNION { UNION { cap_loop(s2, todo \ {c}, dir, size, dry, current_arc) :
                         s2 \in cap_commit(st, c, dir, size, dry, current_arc) } :
                 c \in todo }

\* The sweep over all saved archives (lines 128-153).
sweep(st, latest, dir, dry, current_arc) ==
    LET archives == SortedPaths(Glob(dir, st.exists, st.files, all_pattern))
        doomed == SelectSeq(archives, LAMBDA arc :
                      arc # current_arc /\ ~is_latest_commit(CommitIdOf[arc], latest))
    IN [st EXCEPT
          !.log = @ \o doomed,
          !.removed = IF dry THEN @ ELSE @ \cup Range(doomed),
          !.files = IF dry THEN @
                    ELSE @ \ {BasenameOf[arc] : arc \in Range(doomed)}]

\* _cleanup once the ref tips are known: the possible results.
cleanup(exists, names, latest, dir, size, dry, e) ==
    LET current_arc == current_archive(dir, e)
        st0 == [status |-> "ok", exists |-> exists, files |-> names,
                log |-> <<>>, removed |-> {}]
    IN { IF st.status = "error"
         THEN [status |-> "error", files |-> st.files, cap_files |-> st.files,
               log |-> st.log, removed |-> st.removed]
         ELSE LET end == sweep(st, latest, dir, dry, current_arc)
              IN [status |-> "done", files |-> end.files, cap_files |-> st.files,
                  log |-> end.log, removed |-> end.removed]
         : st \in cap_loop(st0, latest, dir, size, dry, current_arc) }

\* `git for-each-ref` exits non-zero: _check_output raises before anything is touched.
Cleanup ==
    /\ pc = "stored"
    /\ \E ok \in BOOLEAN :
        IF ok
        THEN \E latest \in TipSets :
             \E r \in cleanup(dir_exists, files, latest, save_dir, cache_size, dry_run, env) :
                /\ latest_commits' = latest
                /\ files' = r.files
                /\ cap_files' = r.cap_files
                /\ log' = r.log
                /\ removed' = r.removed
                /\ pc' = r.status
                /\ error' = IF r.status = "error" THEN "ValueError" ELSE ""
        ELSE /\ pc' = "error"
             /\ error' = "git for-each-ref"
             /\ UNCHANGED <<files, latest_commits, cap_files, log, removed>>
    /\ UNCHANGED <<args, clean_paths, dir_exists, artifacts, written, tar>>

Next == Excavate \/ Store \/ Cleanup

Spec == Init /\ [][Next]_vars

\* ------------------------------------------------------------ properties
current_arc == current_archive(save_dir, env)

current_name == default_archive_name(env)

\* The names in the save directory when _cleanup starts.
stored_files == initial.files \cup (IF written THEN {current_name} ELSE {})

ArcPath(n) == PathJoin(save_dir, n)

\* A name of the form *_*_*_*.tar.gz that is no dot file.
IsArchiveName(n) ==
    /\ FnMatch(<<"*", "_", "*", "_", "*", "_", "*", ".", "t", "a", "r", ".", "g", "z">>, n)
    /\ Head(n) # "."

ArchiveNameOf == [n \in AllNames |-> IsArchiveName(n)]

\* Whether the fixed pattern matches the path, and the decimal value of its id group.
WellFormedOf == [a \in AllPaths |-> RegexMatch(a) # <<>>]

DecimalIdOf ==
    [a \in AllPaths |-> IF RegexMatch(a) # <<>> THEN Numeral(RegexMatch(a)[1].id, 10) ELSE 0]

IsTipCommit(commit) == \E l \in latest_commits : commit = SubSeq(l, 1, Min(Len(l), 8))

\* The saved archives whose short-hash field is that of the tip commit c.
ArchivesOf(c) ==
    {ArcPath(n) : n \in {m \in stored_files :
        FnMatch(<<"*", "_", "*", "_">> \o SubSeq(c, 1, Min(Len(c), 8)) \o <<"_", "*">> \o Suffix, m)}}

\* C1: _cleanup never deletes the current archive: it is never passed to
\* os.remove, and once it is in the save directory it stays there.
C1_CurrentArchiveKept ==
    /\ current_arc \notin removed
    /\ current_name \in stored_files => current_name \in files

\* C1 witness: a finished run that removed an archive of the current archive's
\* tip commit with a larger build id (the current one lay beyond the first
\* cache_size archives), and the current archive is still there.
C1_Witness ==
    /\ pc = "done" /\ ~dry_run /\ written
    /\ current_name \in files
    /\ IsTipCommit(CommitIdOf[current_arc])
    /\ \E a \in removed :
          /\ CommitIdOf[a] = CommitIdOf[current_arc]
          /\ DecimalIdOf[a] > DecimalIdOf[current_arc]

\* C2 (as claimed): after a completed per-commit pass, of the archives of a tip
\* commit, all with pairwise distinct numeric build ids and more than
\* cache_size of them, exactly the cache_size archives with the largest
\* build ids survive, plus the current archive.
C2_TopKSurvive ==
    (pc = "done" /\ ~dry_run) =>
        \A c \in latest_commits :
            LET A == ArchivesOf(c)
                top == {a \in A :
                          Cardinality({b \in A : DecimalIdOf[b] > DecimalIdOf[a]}) < cache_size}
            IN (/\ \A a \in A : WellFormedOf[a]
                /\ \A a, b \in A : a # b => DecimalIdOf[a] # DecimalIdOf[b]
                /\ cache_size < Cardinality(A))
               => {a \in A : BasenameOf[a] \in cap_files} = top \cup (A \cap {current_arc})

C4_DryRunNoMutation ==
    dry_run =>
        /\ dir_exists = initial.dir_exists
        /\ files = initial.files
        /\ ~written /\ tar = <<>>
        /\ removed = {}

\* C4 witness: a finished dry run that logged deletions.
C4_Witness == pc = "done" /\ dry_run /\ log # <<>>

\* C5 (as claimed): the archives a finished dry run logs as deleted are those a
\* non-dry run from the same save directory, ref tips, environment and
\* cache size removes.
C5_DryRunSameDecisions ==
    (pc = "done" /\ dry_run) =>
        \E r \in cleanup(TRUE, initial.files \cup {current_name}, latest_commits,
                         save_dir, cache_size, FALSE, env) :
            r.status = "done" /\ Range(log) = r.removed

\* C6 (as claimed): _cleanup never removes a file whose name the fixed
\* pattern does not match.
C6_MalformedIgnored == \A a \in removed : WellFormedOf[a]

\* C6 (amended): a file the fixed pattern does not match is removed only if
\* its name has the form *_*_*_*.tar.gz and it is not the current archive; a
\* name not of that form is never removed; and a finished non-dry run leaves
\* no name of that form the pattern does not match, except the current archive.
C6_MalformedOnlyIfArchiveName ==
    /\ \A a \in removed :
          ~WellFormedOf[a] => (ArchiveNameOf[BasenameOf[a]] /\ a # current_arc)
    /\ \A n \in stored_files : ~ArchiveNameOf[n] => n \in files
    /\ (pc = "done" /\ ~dry_run) =>
          \A n \in files :
              (ArchiveNameOf[n] /\ ~WellFormedOf[ArcPath(n)]) => ArcPath(n) = current_arc

\* C6 witness: a finished run that removed an archive name the pattern does
\* not match and kept a file that is no archive name.
C6_Witness ==
    /\ pc = "done" /\ ~dry_run
    /\ \E a \in removed : ~WellFormedOf[a]
    /\ \E n \in files : ~ArchiveNameOf[n]

\* C7 (as claimed): when the build id is a string of digits, parsing the name
\* _store wrote yields the truncated hash as the commit and the decimal value
\* of the build id, without raising.
IsDigits(s) == s # <<>> /\ \A i \in 1..Len(s) : s[i] \in Digits

C7_NameParseRoundTrip ==
    (written /\ IsDigits(EnvGet(env.CI_BUILD_ID))) =>
        /\ current_name =
              PathBasename(EnvGet(env.CI_PROJECT_DIR)) \o <<"_">> \o EnvGet(env.CI_BUILD_REF_NAME)
                  \o <<"_">> \o SubSeq(EnvGet(env.CI_BUILD_REF), 1, Min(Len(EnvGet(env.CI_BUILD_REF)), 8))
                  \o <<"_">> \o EnvGet(env.CI_BUILD_ID) \o Suffix
        /\ CommitIdOf[current_arc] =
              SubSeq(EnvGet(env.CI_BUILD_REF), 1, Min(Len(EnvGet(env.CI_BUILD_REF)), 8))
        /\ BuildIdOf[current_arc] # ValueError
        /\ BuildIdOf[current_arc] = Numeral(EnvGet(env.CI_BUILD_ID), 10)

\* C8 (as claimed): the archive _store wrote has one entry per artifact, in
\* discovery order, each named by the artifact's full relative path.
C8_EntriesAreRelativePaths ==
    written =>
        /\ Len(tar) = Len(clean_paths)
        /\ \A i \in 1..Len(tar) : tar[i] = PyStrip(clean_paths[i])

\* C9: a failed `git clean` ends the run with nothing changed on disk; a
\* failed `git for-each-ref` ends it with nothing removed; after an error no
\* step follows.
C9_FailFast ==
    /\ error = "git clean" =>
          /\ pc = "error"
          /\ dir_exists = initial.dir_exists /\ files = initial.files
          /\ ~written /\ removed = {} /\ log = <<>>
    /\ error = "git for-each-ref" =>
          /\ pc = "error"
          /\ removed = {} /\ log = <<>> /\ files = stored_files
    /\ pc = "error" => ~ENABLED Next

\* C9 witness: `git for-each-ref` failed after _store wrote the archive into a
\* save directory that held archives.
C9_Witness ==
    /\ pc = "error" /\ error = "git for-each-ref"
    /\ written /\ initial.files # {}

\* C10 (as claimed): after a completed per-commit pass, an archive carrying a
\* tip's short hash is gone whenever at least cache_size archives with that
\* short hash and larger build ids exist, whatever their project, unless it
\* is the current archive.
C10_SharedQuota ==
    (pc = "done" /\ ~dry_run) =>
        \A c \in latest_commits :
            \A a \in ArchivesOf(c) :
                (/\ WellFormedOf[a] /\ a # current_arc
                 /\ Cardinality({b \in ArchivesOf(c) :
                        WellFormedOf[b] /\ DecimalIdOf[b] > DecimalIdOf[a]}) >= cache_size)
                => BasenameOf[a] \notin cap_files
====
